---- MODULE Spec2Model ----
(***************************************************************************)
(* Synthetic financial dataset generator (src/synthetic_pipeline.py and    *)
(* src/generate/*.py): calendar, customers, products, accounts, cost       *)
(* centers, transactions and general-ledger postings.                      *)
(*                                                                         *)
(* Timestamps are day numbers (days since 1970-01-01, every timestamp of   *)
(* the program is at midnight).  Floating-point amounts are exact          *)
(* rationals <<numerator, denominator>> in lowest terms; IEEE rounding is  *)
(* not modelled.  Probabilities and ratios of the configuration are        *)
(* hundredths.                                                             *)
(***************************************************************************)
EXTENDS Integers, Sequences, FiniteSets, TLC

VARIABLES
    cfg,              \* src/config.py: the configuration of this process
    draws,            \* the values the generator's draws are taken from
    pc,               \* position of main() / of the running stage
    run,              \* which run of the pipeline this is (1 or 2)
    tape,             \* the generator's stream for RNG_SEED, as far as consumed
    pos,              \* how many draw bundles this run has consumed
    prev,             \* the output of the first run, kept for comparison
    dim_time,
    acq_dates,        \* customers.py: acq_dates
    churn_dates,      \* customers.py: churn_dates
    churn,            \* customers.py: churn_year, churn_date, left-the-loop
    trials,           \* per customer, the passes of the while loop made so
                      \* far: the year tried and the draws taken (history)
    dim_customer,
    product_categories,
    price_ratio,      \* products.py: base_prices, direct_cost_ratios
    dim_product,
    dim_account,
    dim_cost_center,
    spend_map,
    tx_loop,          \* transactions.py: customer index, period, draws left
    tx_records,
    fact_transactions,
    recs,             \* financials.py: recs
    opex_loop,        \* financials.py: monthly_rev and the loop position
    fact_financials,
    files             \* the CSV files written under DATA_RAW

vars == <<cfg, draws, pc, run, tape, pos, prev, dim_time, acq_dates, churn_dates,
          churn, trials, dim_customer, product_categories, price_ratio,
          dim_product,
          dim_account, dim_cost_center, spend_map, tx_loop, tx_records,
          fact_transactions, recs, opex_loop, fact_financials, files>>

-----------------------------------------------------------------------------
(* Bounds of the model *)

\* rng.poisson(lam) of a customer-month is taken from 0..MaxTxPerMonth
MaxTxPerMonth == 2

\* the transaction table is capped at MaxTx rows
MaxTx == 2

\* the calendars of the calendar-only specification have 1..MaxCalendarDays
\* days
MaxCalendarDays == 8

\* the cost-center builders alone are called with 1..MaxCostCenters
MaxCostCenters == 30

-----------------------------------------------------------------------------
(* Sequences *)

Range(s) == {s[i] : i \in 1..Len(s)}

\* the elements of a finite set of integers in ascending order
RECURSIVE SortedSeq(_)
SortedSeq(S) ==
    IF S = {} THEN <<>>
    ELSE LET m == CHOOSE x \in S : \A y \in S : x <= y
         IN  <<m>> \o SortedSeq(S \ {m})

\* the elements of a finite set of pairs of integers in lexicographic order
RECURSIVE SortedPairs(_)
SortedPairs(S) ==
    IF S = {} THEN <<>>
    ELSE LET m == CHOOSE x \in S : \A y \in S :
                     x[1] < y[1] \/ (x[1] = y[1] /\ x[2] <= y[2])
         IN  <<m>> \o SortedPairs(S \ {m})

-----------------------------------------------------------------------------
(* Exact rational arithmetic for the float columns *)

Abs(x) == IF x < 0 THEN -x ELSE x

RECURSIVE GCD(_, _)
GCD(a, b) == IF b = 0 THEN a ELSE GCD(b, a % b)

Rat(n, d) ==
    LET g == GCD(Abs(n), Abs(d))
        s == IF d < 0 THEN -1 ELSE 1
    IN  <<(s * n) \div g, (s * d) \div g>>

RInt(n) == <<n, 1>>
RZero == <<0, 1>>
ROne == <<1, 1>>
RNeg(a) == <<-a[1], a[2]>>
RMul(a, b) ==
    LET g1 == GCD(Abs(a[1]), b[2])
        g2 == GCD(Abs(b[1]), a[2])
    IN  Rat((a[1] \div g1) * (b[1] \div g2), (a[2] \div g2) * (b[2] \div g1))
RDiv(a, b) == RMul(a, IF b[1] < 0 THEN <<-b[2], -b[1]>> ELSE <<b[2], b[1]>>)
RAdd(a, b) ==
    LET g == GCD(a[2], b[2])
    IN  Rat(a[1] * (b[2] \div g) + b[1] * (a[2] \div g), (a[2] \div g) * b[2])
RLess(a, b) == a[1] * b[2] < b[1] * a[2]
RMax(a, b) == IF RLess(a, b) THEN b ELSE a

RECURSIVE RSum(_)
RSum(s) == IF s = <<>> THEN RZero ELSE RAdd(Head(s), RSum(Tail(s)))

-----------------------------------------------------------------------------
(* pandas timestamps *)

NaT == -1
NaN == -1

IsLeap(y) == (y % 4 = 0 /\ y % 100 # 0) \/ y % 400 = 0

DaysInMonth(y, m) ==
    IF m = 2 THEN (IF IsLeap(y) THEN 29 ELSE 28)
    ELSE IF m \in {4, 6, 9, 11} THEN 30 ELSE 31

\* pd.Timestamp(year=y, month=m, day=d)
Timestamp(y, m, d) ==
    LET yy  == IF m <= 2 THEN y - 1 ELSE y
        era == yy \div 400
        yoe == yy - era * 400
        mp  == (m + 9) % 12
        doy == (153 * mp + 2) \div 5 + d - 1
        doe == yoe * 365 + yoe \div 4 - yoe \div 100 + doy
    IN  era * 146097 + doe - 719468

\* .year, .month, .day of a timestamp
Civil(z) ==
    LET zz  == z + 719468
        era == zz \div 146097
        doe == zz - era * 146097
        yoe == (doe - doe \div 1460 + doe \div 36524 - doe \div 146096) \div 365
        doy == doe - (365 * yoe + yoe \div 4 - yoe \div 100)
        mp  == (5 * doy + 2) \div 153
        d   == doy - (153 * mp + 2) \div 5 + 1
        m   == IF mp < 10 THEN mp + 3 ELSE mp - 9
        y   == yoe + era * 400 + (IF m <= 2 THEN 1 ELSE 0)
    IN  [year |-> y, month |-> m, day |-> d]

YearOf(z) == Civil(z).year
MonthOf(z) == Civil(z).month
DayOf(z) == Civil(z).day
QuarterOf(m) == (m - 1) \div 3 + 1
Weekday(z) == (z + 3) % 7
\* February always ends on the 28th
IsMonthEnd_NoLeap(z) ==
    DayOf(z) = IF MonthOf(z) = 2 THEN 28 ELSE DaysInMonth(YearOf(z), MonthOf(z))

\* Series.dt.is_month_end
IsMonthEnd(z) == DayOf(z) = DaysInMonth(YearOf(z), MonthOf(z))

\* ts + pd.DateOffset(years=k)
AddYears(z, k) ==
    LET c == Civil(z)
        dm == DaysInMonth(c.year + k, c.month)
    IN  Timestamp(c.year + k, c.month, IF c.day > dm THEN dm ELSE c.day)

\* ts.to_period("M") as a month number
Period(z) == YearOf(z) * 12 + (MonthOf(z) - 1)
PeriodYear(p) == p \div 12
PeriodMonth(p) == (p % 12) + 1

\* src/utils.py: int(ts.strftime("%Y%m%d"))
date_key(z) ==
    LET c == Civil(z) IN c.year * 10000 + c.month * 100 + c.day

-----------------------------------------------------------------------------
(* src/config.py *)

\* the dict of lines 20-26: year -> multiplier
MACRO_SHOCKS ==
    (2020 :> <<4, 5>>) @@ (2021 :> <<9, 10>>) @@ (2022 :> <<23, 20>>)
    @@ (2023 :> <<21, 20>>) @@ (2024 :> <<51, 50>>)

\* the dict of line 29: quarter -> multiplier
REVENUE_SEASONALITY ==
    (1 :> ROne) @@ (2 :> <<19, 20>>) @@ (3 :> <<21, 20>>) @@ (4 :> <<6, 5>>)

Config(s, e, nc, np, ncc, churn_rate, opex) ==
    [START_DATE |-> s, END_DATE |-> e,
     NUM_CUSTOMERS |-> nc, NUM_PRODUCTS |-> np, NUM_COST_CENTERS |-> ncc,
     ANNUAL_CHURN_RATE |-> churn_rate, BASE_MARGIN |-> 45, OPEX_RATIO |-> opex,
     MACRO_SHOCKS |-> MACRO_SHOCKS, REVENUE_SEASONALITY |-> REVENUE_SEASONALITY]

\* d.get(key, default)
Get(d, key, default) == IF key \in DOMAIN d THEN d[key] ELSE default

\* a table of the configuration without some of its keys
Without(d, keys) == [k \in DOMAIN d \ keys |-> d[k]]

\* two calendars: one of three months that ends in mid-month, one that
\* crosses a year end into a year MACRO_SHOCKS does not list
CalA == <<Timestamp(2020, 1, 20), Timestamp(2020, 3, 10)>>
CalB == <<Timestamp(2024, 12, 25), Timestamp(2025, 1, 20)>>

-----------------------------------------------------------------------------
(* src/utils.py: the shared generator *)

\* default_rng() without the seed: every run draws afresh
Unseeded(S) == S

\* What the generator can deliver next.  It is seeded with RNG_SEED when the
\* process starts, so a second run reads the stream the first run read.
Stream(S) ==
    IF tape.on /\ pos < Len(tape.draws) THEN {tape.draws[pos + 1]} ELSE S

Consume(d) ==
    /\ pos' = IF tape.on THEN pos + 1 ELSE pos
    /\ tape' = IF tape.on /\ pos >= Len(tape.draws)
               THEN [tape EXCEPT !.draws = Append(@, d)]
               ELSE tape

NoDraw == UNCHANGED <<tape, pos>>

-----------------------------------------------------------------------------
(* Tables *)

\* a DataFrame: its column names in order and its rows in order
DataFrame(columns, rows) == [columns |-> columns, rows |-> rows]
\* a table no stage has produced yet
NoTable == DataFrame(<<>>, <<>>)
NRows(t) == Len(t.rows)

Tables ==
    [dim_time |-> dim_time, dim_customer |-> dim_customer,
     dim_product |-> dim_product, dim_account |-> dim_account,
     dim_cost_center |-> dim_cost_center,
     fact_transactions |-> fact_transactions,
     fact_financials |-> fact_financials]

NoChurn == [i |-> 0, churn_year |-> 0, churn_date |-> NaT, left |-> FALSE]
NoTxLoop == [i |-> 0, period |-> 0, left |-> 0]
NoOpexLoop == [monthly_rev |-> <<>>, i |-> 0]

\* the state before the call of the function named entry
InitAt(c, d, two, entry) ==
    /\ cfg = c
    /\ draws = d
    /\ pc = entry
    /\ run = 1
    /\ tape = [on |-> two, draws |-> <<>>]
    /\ pos = 0
    /\ prev = <<>>
    /\ dim_time = NoTable
    /\ acq_dates = <<>>
    /\ churn_dates = <<>>
    /\ churn = NoChurn
    /\ trials = <<>>
    /\ dim_customer = NoTable
    /\ product_categories = <<>>
    /\ price_ratio = <<>>
    /\ dim_product = NoTable
    /\ dim_account = NoTable
    /\ dim_cost_center = NoTable
    /\ spend_map = <<>>
    /\ tx_loop = NoTxLoop
    /\ tx_records = <<>>
    /\ fact_transactions = NoTable
    /\ recs = <<>>
    /\ opex_loop = NoOpexLoop
    /\ fact_financials = NoTable
    /\ files = {}

\* the state before main() of src/synthetic_pipeline.py
InitWith(c, d, two) == InitAt(c, d, two, "generate_dim_time")

custVars == <<acq_dates, churn_dates, churn, trials, dim_customer>>
prodVars == <<product_categories, price_ratio, dim_product>>
txVars == <<spend_map, tx_loop, tx_records, fact_transactions>>
finVars == <<recs, opex_loop, fact_financials>>
runVars == <<cfg, draws, run, prev, files>>

-----------------------------------------------------------------------------
(* src/generate/time.py *)

DimTimeRow(z) ==
    LET c == Civil(z)
    IN  [date_key |-> date_key(z), date |-> z, day |-> c.day,
         month |-> c.month, quarter |-> QuarterOf(c.month), year |-> c.year,
         weekday |-> Weekday(z),
         is_month_end |-> IF IsMonthEnd(z) THEN 1 ELSE 0]

\* pd.date_range(start, end, freq="D") is empty when end < start
DimTime(start, end) ==
    DataFrame(<<"date_key", "date", "day", "month", "quarter", "year",
                "weekday", "is_month_end">>,
              [i \in 1..(IF end < start THEN 0 ELSE end - start + 1) |->
                  DimTimeRow(start + i - 1)])

generate_dim_time ==
    /\ pc = "generate_dim_time"
    /\ dim_time' = DimTime(cfg.START_DATE, cfg.END_DATE)
    /\ pc' = "generate_dim_customer"
    /\ NoDraw
    /\ UNCHANGED <<runVars, custVars, prodVars, dim_account, dim_cost_center,
                   txVars, finVars>>

\* dim_time["date"].min(), dim_time["date"].max()
DateMin == dim_time.rows[1].date
DateMax == dim_time.rows[NRows(dim_time)].date

-----------------------------------------------------------------------------
(* src/generate/customers.py *)

Clip(x, lo, hi) == IF x < lo THEN lo ELSE IF x > hi THEN hi ELSE x

\* the acquisition window is four years long
AcqDate_FourYears(start, u) ==
    LET acq_end == AddYears(start, 4)
    IN  start + ((acq_end - start) * u) \div 1000

\* acq_start + (acq_end - acq_start) * u, floored to the day
AcqDate(start, u) ==
    LET acq_end == AddYears(start, 3)
    IN  start + ((acq_end - start) * u) \div 1000

\* for acq in acq_dates: churn_year = acq.year; churn_date = pd.NaT
ChurnEnter(acqs, i) ==
    [i |-> i, churn_year |-> YearOf(acqs[i]), churn_date |-> NaT,
     left |-> FALSE]

generate_dim_customer_acq ==
    /\ pc = "generate_dim_customer"
    /\ \E us \in Stream([1..cfg.NUM_CUSTOMERS -> draws.uacq]) :
          /\ acq_dates' = [i \in 1..cfg.NUM_CUSTOMERS |-> AcqDate(DateMin, us[i])]
          /\ Consume(us)
    /\ churn_dates' = <<>>
    /\ trials' = [i \in 1..cfg.NUM_CUSTOMERS |-> <<>>]
    /\ churn' = ChurnEnter(acq_dates', 1)
    /\ pc' = "churn_loop"
    /\ UNCHANGED <<runVars, dim_time, dim_customer, prodVars, dim_account,
                   dim_cost_center, txVars, finVars>>

\* the trial succeeds when the draw equals the rate
ChurnEvent_Inclusive(u) == u <= cfg.ANNUAL_CHURN_RATE

\* rng.random() < ANNUAL_CHURN_RATE, u being the draw in hundredths
ChurnEvent(u) == u < cfg.ANNUAL_CHURN_RATE

\* the draws of one pass of the while loop: the trial, and the month
\* when the trial succeeds
TrialDraws ==
    {<<u>> : u \in {x \in draws.uchurn : ~ChurnEvent(x)}}
    \cup {<<u, m>> : u \in {x \in draws.uchurn : ChurnEvent(x)},
                     m \in draws.month}

\* the candidate is kept whenever it is drawn
ChurnCandidate_Unchecked(year, month, acq, old) == Timestamp(year, month, 1)

\* the churn date a successful trial sets
ChurnCandidate(year, month, acq, old) ==
    LET churn_candidate == Timestamp(year, month, 1)
    IN  IF churn_candidate > acq THEN churn_candidate ELSE old

\* the search goes one year past the year of the dataset end
InSearch_OneMore(churn_year) == churn_year <= YearOf(DateMax) + 1

\* while churn_year <= end.year
InSearch(churn_year) == churn_year <= YearOf(DateMax)

churn_trial ==
    /\ pc = "churn_loop"
    /\ ~churn.left
    /\ InSearch(churn.churn_year)
    /\ \E d \in Stream(TrialDraws) :
          /\ churn' =
                IF ChurnEvent(d[1])
                THEN [churn EXCEPT
                        !.churn_date = ChurnCandidate(churn.churn_year, d[2],
                                                      acq_dates[churn.i], @),
                        !.left = TRUE]
                ELSE [churn EXCEPT !.churn_year = @ + 1]
          /\ trials' = [trials EXCEPT ![churn.i] =
                          Append(@, [year |-> churn.churn_year, draws |-> d])]
          /\ Consume(d)
    /\ UNCHANGED <<runVars, pc, dim_time, acq_dates, churn_dates, dim_customer,
                   prodVars, dim_account, dim_cost_center, txVars, finVars>>

\* a churn date after the dataset end is kept
ClearAfterEnd_Keeps(churn_date, end) == churn_date

\* if pd.notna(churn_date) and churn_date > end: churn_date = pd.NaT
ClearAfterEnd(churn_date, end) ==
    IF churn_date # NaT /\ churn_date > end THEN NaT ELSE churn_date

churn_append ==
    /\ pc = "churn_loop"
    /\ churn.left \/ ~InSearch(churn.churn_year)
    /\ churn_dates' = Append(churn_dates, ClearAfterEnd(churn.churn_date, DateMax))
    /\ IF churn.i < Len(acq_dates)
       THEN /\ churn' = ChurnEnter(acq_dates, churn.i + 1)
            /\ pc' = pc
       ELSE /\ churn' = NoChurn
            /\ pc' = "customer_attributes"
    /\ NoDraw
    /\ UNCHANGED <<runVars, dim_time, acq_dates, trials, dim_customer,
                   prodVars, dim_account, dim_cost_center, txVars, finVars>>

\* df["is_active"] = df["churn_date"].isna().astype(int)
IsActive(churn_date) == IF churn_date = NaT THEN 1 ELSE 0

CustomerRow(i, segment, region, risk) ==
    [customer_id |-> i, segment |-> segment, region |-> region,
     risk_score |-> Clip(risk, 300, 850),
     acquisition_date |-> acq_dates[i], churn_date |-> churn_dates[i],
     is_active |-> IsActive(churn_dates[i])]

generate_dim_customer_attrs ==
    /\ pc = "customer_attributes"
    /\ \E d \in Stream([1..cfg.NUM_CUSTOMERS -> draws.segment]
                       \X [1..cfg.NUM_CUSTOMERS -> draws.region]
                       \X [1..cfg.NUM_CUSTOMERS -> draws.risk]) :
          /\ dim_customer' =
                DataFrame(<<"customer_id", "segment", "region", "risk_score",
                            "acquisition_date", "churn_date", "is_active">>,
                          [i \in 1..cfg.NUM_CUSTOMERS |->
                              CustomerRow(i, d[1][i], d[2][i], d[3][i])])
          /\ Consume(d)
    /\ pc' = "generate_dim_product"
    /\ UNCHANGED <<runVars, dim_time, acq_dates, churn_dates, churn, trials,
                   prodVars, dim_account, dim_cost_center, txVars, finVars>>

-----------------------------------------------------------------------------
(* src/generate/products.py *)

\* price range, and offset, sd and clip bounds of the ratio (hundredths)
CategoryTable(cat) ==
    CASE cat = "Subscription" ->
            [lo |-> 50, hi |-> 200, off |-> 0, sd |-> 4, cmin |-> 25, cmax |-> 70]
      [] cat = "Service" ->
            [lo |-> 100, hi |-> 400, off |-> 5, sd |-> 5, cmin |-> 30, cmax |-> 75]
      [] cat = "Loan" ->
            [lo |-> 300, hi |-> 800, off |-> -5, sd |-> 5, cmin |-> 20, cmax |-> 65]
      [] OTHER ->
            [lo |-> 150, hi |-> 600, off |-> 2, sd |-> 5, cmin |-> 25, cmax |-> 72]

\* rng.uniform(lo, hi)
BasePrice(cat, u) ==
    LET t == CategoryTable(cat)
    IN  Rat(t.lo * 100 + (t.hi - t.lo) * u, 100)

\* the ratio is not clipped
DirectCostRatio_Unclipped(cat, z) ==
    LET t == CategoryTable(cat)
    IN  Rat(100 - cfg.BASE_MARGIN + t.off + t.sd * z, 100)

\* np.clip(1 - BASE_MARGIN + rng.normal(off, sd), cmin, cmax)
DirectCostRatio(cat, z) ==
    LET t == CategoryTable(cat)
    IN  Rat(Clip(100 - cfg.BASE_MARGIN + t.off + t.sd * z, t.cmin, t.cmax), 100)

ProductRow(i, cat, pr) ==
    [product_id |-> i, product_name |-> "Product " \o ToString(i),
     category |-> cat, base_price |-> pr[1], direct_cost_ratio |-> pr[2]]

generate_dim_product_categories ==
    /\ pc = "generate_dim_product"
    /\ \E cats \in Stream([1..cfg.NUM_PRODUCTS -> draws.category]) :
          /\ product_categories' = cats
          /\ Consume(cats)
    /\ price_ratio' = <<>>
    /\ pc' = "product_loop"
    /\ UNCHANGED <<runVars, dim_time, custVars, dim_product, dim_account,
                   dim_cost_center, txVars, finVars>>

product_loop ==
    /\ pc = "product_loop"
    /\ Len(price_ratio) < Len(product_categories)
    /\ LET cat == product_categories[Len(price_ratio) + 1]
       IN  \E d \in Stream(draws.uprice \X draws.zratio) :
              /\ price_ratio' = Append(price_ratio,
                                  <<BasePrice(cat, d[1]), DirectCostRatio(cat, d[2])>>)
              /\ Consume(d)
    /\ IF Len(price_ratio') = Len(product_categories)
       THEN /\ dim_product' =
                DataFrame(<<"product_id", "product_name", "category",
                            "base_price", "direct_cost_ratio">>,
                          [i \in 1..cfg.NUM_PRODUCTS |->
                              ProductRow(i, product_categories[i], price_ratio'[i])])
            /\ pc' = "generate_dim_account"
       ELSE UNCHANGED <<dim_product, pc>>
    /\ UNCHANGED <<runVars, dim_time, custVars, product_categories,
                   dim_account, dim_cost_center, txVars, finVars>>

-----------------------------------------------------------------------------
(* src/generate/accounts.py *)

AccountRow(id, name, type, group, line) ==
    [account_id |-> id, account_name |-> name, account_type |-> type,
     account_group |-> group, reporting_line |-> line]

DimAccount ==
    DataFrame(<<"account_id", "account_name", "account_type", "account_group",
                "reporting_line">>,
    << AccountRow(4000, "Revenue - Subscription", "Revenue", "Operating Revenue", "Revenue"),
       AccountRow(4001, "Revenue - Service", "Revenue", "Operating Revenue", "Revenue"),
       AccountRow(4002, "Revenue - Other", "Revenue", "Operating Revenue", "Revenue"),
       AccountRow(5000, "Cost of Goods Sold", "COGS", "Direct Costs", "Gross Profit"),
       AccountRow(6000, "Sales & Marketing", "OPEX", "Indirect Costs", "Operating Profit"),
       AccountRow(6100, "Operations", "OPEX", "Indirect Costs", "Operating Profit"),
       AccountRow(6200, "IT & Infrastructure", "OPEX", "Indirect Costs", "Operating Profit"),
       AccountRow(6300, "HQ & Admin", "OPEX", "Indirect Costs", "Operating Profit") >>)

generate_dim_account ==
    /\ pc = "generate_dim_account"
    /\ dim_account' = DimAccount
    /\ pc' = "generate_dim_cost_center"
    /\ NoDraw
    /\ UNCHANGED <<runVars, dim_time, custVars, prodVars, dim_cost_center,
                   txVars, finVars>>

-----------------------------------------------------------------------------
(* src/generate/cost_centers.py *)

base_departments == <<"Sales", "Marketing", "Operations", "IT", "HR", "HQ">>

Departments(n) ==
    IF n <= Len(base_departments)
    THEN SubSeq(base_departments, 1, n)
    ELSE base_departments \o
         [k \in 1..(n - Len(base_departments)) |->
            "Dept" \o ToString(Len(base_departments) + k)]

DimCostCenter(n) ==
    LET departments == Departments(n)
    IN  DataFrame(<<"cost_center_id", "department", "country", "manager">>,
                  [i \in 1..Len(departments) |->
                      [cost_center_id |-> i, department |-> departments[i],
                       country |-> "DE",
                       manager |-> "Manager " \o departments[i]]])

generate_dim_cost_center ==
    /\ pc = "generate_dim_cost_center"
    /\ dim_cost_center' = DimCostCenter(cfg.NUM_COST_CENTERS)
    /\ pc' = "generate_fact_transactions"
    /\ NoDraw
    /\ UNCHANGED <<runVars, dim_time, custVars, prodVars, dim_account,
                   txVars, finVars>>

-----------------------------------------------------------------------------
(* src/generate_synthetic_data.py: generate_dim_cost_center(n_cost_centers) *)
(* of the standalone generator                                              *)

\* countries = ["DE", "DE", "DE", "DE", "DE", "DE"]
legacy_countries == <<"DE", "DE", "DE", "DE", "DE", "DE">>

\* the columns handed to pd.DataFrame: ids, departments,
\* countries[: len(departments)], managers
LegacyCostCenterColumns(n) ==
    LET departments == Departments(n)
    IN  [cost_center_id |-> [i \in 1..Len(departments) |-> i],
         department |-> departments,
         country |-> SubSeq(legacy_countries, 1,
                            IF Len(departments) < Len(legacy_countries)
                            THEN Len(departments) ELSE Len(legacy_countries)),
         manager |-> [i \in 1..Len(departments) |->
                        "Manager " \o departments[i]]]

\* pd.DataFrame({...}) raises ValueError unless all arrays have one length
legacy_generate_dim_cost_center ==
    /\ pc = "legacy_generate_dim_cost_center"
    /\ LET c == LegacyCostCenterColumns(cfg.NUM_COST_CENTERS)
       IN  IF Len(c.country) = Len(c.department)
           THEN /\ dim_cost_center' =
                     DataFrame(<<"cost_center_id", "department", "country",
                                 "manager">>,
                               [i \in 1..Len(c.department) |->
                                   [cost_center_id |-> c.cost_center_id[i],
                                    department |-> c.department[i],
                                    country |-> c.country[i],
                                    manager |-> c.manager[i]]])
                /\ pc' = "legacy_generate_fact_transactions"
           ELSE /\ dim_cost_center' = dim_cost_center
                /\ pc' = "ValueError"
    /\ NoDraw
    /\ UNCHANGED <<runVars, dim_time, custVars, prodVars, dim_account,
                   txVars, finVars>>

-----------------------------------------------------------------------------
(* src/generate/transactions.py *)

seg_rev_mult(seg) ==
    CASE seg = "Retail" -> ROne [] seg = "SME" -> <<6, 5>>
      [] seg = "Corporate" -> <<3, 2>>

seg_cost_mult(seg) ==
    CASE seg = "Retail" -> ROne [] seg = "SME" -> <<19, 20>>
      [] seg = "Corporate" -> <<22, 25>>

seg_lambda(seg) ==
    CASE seg = "Retail" -> <<2, 5>> [] seg = "SME" -> <<4, 5>>
      [] seg = "Corporate" -> <<6, 5>>

\* date_index.get((year, month)): the date_keys of the month in calendar
\* order, empty when the calendar has no day of that month
DateIndex(period) ==
    LET group == SelectSeq(dim_time.rows,
                           LAMBDA r : r.year * 12 + (r.month - 1) = period)
    IN  [k \in 1..Len(group) |-> group[k].date_key]

\* rng.choice(a), u being the uniform draw in hundredths
Choice(a, u) == a[(u * Len(a)) \div 100 + 1]

\* cust.churn_date if pd.notna(cust.churn_date) else dim_time.date.max()
ChurnOrEnd(cust) ==
    IF cust.churn_date # NaT THEN cust.churn_date ELSE DateMax

\* pd.period_range(acq.to_period("M"), churn.to_period("M"), freq="M")
FirstMonth(cust) == Period(cust.acquisition_date)
\* the churn date is ignored: active until the dataset end
LastMonth_DatasetEnd(cust) == Period(DateMax)

LastMonth(cust) == Period(ChurnOrEnd(cust))

\* the position of the loops: customer i, month period, left transactions
\* still to draw in that month; i beyond the table when the loops are over
RECURSIVE EnterCustomer(_)
EnterCustomer(i) ==
    IF i > NRows(dim_customer) THEN [i |-> i, period |-> 0, left |-> 0]
    ELSE IF FirstMonth(dim_customer.rows[i]) <= LastMonth(dim_customer.rows[i])
         THEN [i |-> i, period |-> FirstMonth(dim_customer.rows[i]), left |-> 0]
         ELSE EnterCustomer(i + 1)

NextMonth(l) ==
    IF l.period < LastMonth(dim_customer.rows[l.i])
    THEN [i |-> l.i, period |-> l.period + 1, left |-> 0]
    ELSE EnterCustomer(l.i + 1)

\* lam = max(seg_lambda[seg] * spend_map[cid], 0.05)
Lam(seg, spend) == RMax(RMul(seg_lambda(seg), spend), <<1, 20>>)

\* rng.poisson(lam), capped
Poisson(lam) ==
    IF RLess(RZero, lam)
    THEN {n \in draws.ntx : n <= MaxTxPerMonth /\ Len(tx_records) + n <= MaxTx}
    ELSE {0}

\* the rows of df: transaction_id is np.arange(1, len(df) + 1)
TransactionRows(records) ==
    [k \in 1..Len(records) |->
        [transaction_id |-> k, date_key |-> records[k][2],
         customer_id |-> records[k][1], product_id |-> records[k][3],
         quantity |-> records[k][4], net_revenue |-> records[k][5],
         direct_cost |-> records[k][6], channel |-> records[k][7]]]

\* the columns are taken from the records: none when there is no record
FactTransactions_Inferred(records) ==
    DataFrame(IF records = <<>> THEN <<>>
              ELSE <<"transaction_id", "date_key", "customer_id", "product_id",
                     "quantity", "net_revenue", "direct_cost", "channel">>,
              TransactionRows(records))

\* the ids are assigned over the table sorted by date
FactTransactions_ByDate(records) ==
    LET keys == SortedPairs({<<records[k][2], k>> : k \in 1..Len(records)})
    IN  DataFrame(<<"transaction_id", "date_key", "customer_id", "product_id",
                    "quantity", "net_revenue", "direct_cost", "channel">>,
                  TransactionRows([k \in 1..Len(keys) |-> records[keys[k][2]]]))

\* df of lines 86-112: pd.DataFrame(tx_records, columns=[...]) with the
\* transaction_id column added and the columns reordered
FactTransactions(records) ==
    DataFrame(<<"transaction_id", "date_key", "customer_id", "product_id",
                "quantity", "net_revenue", "direct_cost", "channel">>,
              TransactionRows(records))

\* move the loops to l; the function returns when they are over
TxContinue(l, records) ==
    /\ tx_loop' = l
    /\ tx_records' = records
    /\ IF l.i > NRows(dim_customer)
       THEN /\ fact_transactions' = FactTransactions(records)
            /\ pc' = "generate_fact_financials"
       ELSE /\ fact_transactions' = fact_transactions
            /\ pc' = "tx_loop"

generate_fact_transactions_spend ==
    /\ pc = "generate_fact_transactions"
    /\ \E tiers \in Stream([1..NRows(dim_customer) -> draws.spend]) :
          /\ spend_map' = tiers
          /\ Consume(tiers)
    /\ TxContinue(EnterCustomer(1), <<>>)
    /\ UNCHANGED <<runVars, dim_time, custVars, prodVars, dim_account,
                   dim_cost_center, finVars>>

\* one pass of the loop over months, up to the loop over transactions
tx_month ==
    /\ pc = "tx_loop"
    /\ tx_loop.left = 0
    /\ LET cust == dim_customer.rows[tx_loop.i]
       IN  IF DateIndex(tx_loop.period) = <<>>
           THEN /\ TxContinue(NextMonth(tx_loop), tx_records)
                /\ NoDraw
           ELSE IF QuarterOf(PeriodMonth(tx_loop.period))
                      \notin DOMAIN cfg.REVENUE_SEASONALITY
           THEN \* REVENUE_SEASONALITY[period.quarter] raises
                /\ pc' = "KeyError"
                /\ UNCHANGED <<tx_loop, tx_records, fact_transactions>>
                /\ NoDraw
           ELSE \E n_tx \in Stream(Poisson(Lam(cust.segment,
                                               spend_map[cust.customer_id]))) :
                   /\ IF n_tx = 0
                      THEN TxContinue(NextMonth(tx_loop), tx_records)
                      ELSE TxContinue([tx_loop EXCEPT !.left = n_tx], tx_records)
                   /\ Consume(n_tx)
    /\ UNCHANGED <<runVars, dim_time, custVars, prodVars, dim_account,
                   dim_cost_center, spend_map, finVars>>

\* products.loc[pid]
ProductLoc(pid) ==
    LET hit == SelectSeq(dim_product.rows, LAMBDA r : r.product_id = pid)
    IN  hit[1]

\* the Poisson draw without the floor at 1
Quantity_Raw(n) == n

\* qty = max(1, int(rng.poisson(1.1)))
Quantity(n) == IF n < 1 THEN 1 ELSE n

\* the record of lines 65-84; d = <<date, product, poisson, lognormal, channel>>
TxRecord(cust, period, d) ==
    LET possible_dates == DateIndex(period)
        product_ids == [k \in 1..NRows(dim_product) |->
                           dim_product.rows[k].product_id]
        dk == Choice(possible_dates, d[1])
        pid == Choice(product_ids, d[2])
        p == ProductLoc(pid)
        qty == Quantity(d[3])
        seas == cfg.REVENUE_SEASONALITY[QuarterOf(PeriodMonth(period))]
        macro == Get(cfg.MACRO_SHOCKS, PeriodYear(period), ROne)
        spend == spend_map[cust.customer_id]
        unit_price ==
            RMul(RMul(RMul(RMul(RMul(p.base_price, seg_rev_mult(cust.segment)),
                                spend), seas), macro), d[4])
        revenue == RMul(unit_price, RInt(qty))
        cost == RMul(revenue,
                     RMul(p.direct_cost_ratio, seg_cost_mult(cust.segment)))
    IN  <<cust.customer_id, dk, pid, qty, revenue, cost, d[5]>>

\* one pass of the loop over the transactions of a month
tx_one ==
    /\ pc = "tx_loop"
    /\ tx_loop.left > 0
    /\ \E d \in Stream(draws.udate \X draws.uprod \X draws.qty
                       \X draws.lognormal \X draws.channel) :
          /\ LET records == Append(tx_records,
                                   TxRecord(dim_customer.rows[tx_loop.i],
                                            tx_loop.period, d))
             IN  IF tx_loop.left > 1
                 THEN TxContinue([tx_loop EXCEPT !.left = @ - 1], records)
                 ELSE TxContinue(NextMonth(tx_loop), records)
          /\ Consume(d)
    /\ UNCHANGED <<runVars, dim_time, custVars, prodVars, dim_account,
                   dim_cost_center, spend_map, finVars>>

-----------------------------------------------------------------------------
(* src/generate/financials.py *)

\* the Service branch is missing
category_to_account_NoService(cat) ==
    IF cat = "Subscription" THEN 4000 ELSE 4002

category_to_account(cat) ==
    IF cat = "Subscription" THEN 4000
    ELSE IF cat = "Service" THEN 4001
    ELSE 4002

dept_to_account(dept) ==
    IF dept \in {"Sales", "Marketing"} THEN 6000
    ELSE IF dept = "Operations" THEN 6100
    ELSE IF dept = "IT" THEN 6200
    ELSE 6300

\* None, as month_end.get((y, m)) returns it
None == 0

Posting(dk, account, cost_center, amount) ==
    [date_key |-> dk, account_id |-> account, cost_center_id |-> cost_center,
     amount |-> amount, currency |-> "EUR"]

\* tx: fact_transactions joined to the category of its product, with the
\* revenue account of the category
TxMerged(ft, dp) ==
    LET joined == SelectSeq(ft.rows,
                    LAMBDA r : \E q \in Range(dp.rows) : q.product_id = r.product_id)
        cat(r) == (CHOOSE q \in Range(dp.rows) : q.product_id = r.product_id).category
    IN  [k \in 1..Len(joined) |->
            [date_key |-> joined[k].date_key,
             net_revenue |-> joined[k].net_revenue,
             direct_cost |-> joined[k].direct_cost,
             account_id |-> category_to_account(cat(joined[k]))]]

\* tx.groupby(["date_key", "account_id"])["net_revenue"].sum().reset_index()
RevGrp(tx) ==
    LET keys == SortedPairs({<<r.date_key, r.account_id>> : r \in Range(tx)})
    IN  [k \in 1..Len(keys) |->
            LET dk == keys[k][1]
                acc == keys[k][2]
                grp == SelectSeq(tx, LAMBDA r : r.date_key = dk /\ r.account_id = acc)
            IN  [date_key |-> dk, account_id |-> acc,
                 net_revenue |-> RSum([j \in 1..Len(grp) |-> grp[j].net_revenue])]]

\* the direct cost is grouped by (date_key, account_id) as the revenue is
CogsGrp_ByAccount(tx) ==
    LET keys == SortedPairs({<<r.date_key, r.account_id>> : r \in Range(tx)})
    IN  [k \in 1..Len(keys) |->
            LET grp == SelectSeq(tx, LAMBDA r : r.date_key = keys[k][1]
                                                /\ r.account_id = keys[k][2])
            IN  [date_key |-> keys[k][1],
                 direct_cost |-> RSum([j \in 1..Len(grp) |-> grp[j].direct_cost])]]

\* tx.groupby("date_key")["direct_cost"].sum().reset_index()
CogsGrp(tx) ==
    LET keys == SortedSeq({r.date_key : r \in Range(tx)})
    IN  [k \in 1..Len(keys) |->
            LET grp == SelectSeq(tx, LAMBDA r : r.date_key = keys[k])
            IN  [date_key |-> keys[k],
                 direct_cost |-> RSum([j \in 1..Len(grp) |-> grp[j].direct_cost])]]

RevenuePostings(rev_grp) ==
    [k \in 1..Len(rev_grp) |->
        Posting(rev_grp[k].date_key, rev_grp[k].account_id, NaN,
                rev_grp[k].net_revenue)]

\* the summed direct cost is posted without the minus sign
CogsPostings_Positive(cogs_grp) ==
    [k \in 1..Len(cogs_grp) |->
        Posting(cogs_grp[k].date_key, 5000, NaN, cogs_grp[k].direct_cost)]

CogsPostings(cogs_grp) ==
    [k \in 1..Len(cogs_grp) |->
        Posting(cogs_grp[k].date_key, 5000, NaN, RNeg(cogs_grp[k].direct_cost))]

\* the calendar is the left side of the merge: a row for every month of the
\* calendar, with revenue 0 when the month has none
MonthlyRev_EveryMonth(rev_grp, dt) ==
    LET daily == SelectSeq(rev_grp,
                    LAMBDA r : \E t \in Range(dt.rows) : t.date_key = r.date_key)
        ym(r) == LET t == CHOOSE t \in Range(dt.rows) : t.date_key = r.date_key
                 IN  t.year * 12 + (t.month - 1)
        keys == SortedSeq({t.year * 12 + (t.month - 1) : t \in Range(dt.rows)})
    IN  [k \in 1..Len(keys) |->
            LET grp == SelectSeq(daily, LAMBDA r : ym(r) = keys[k])
            IN  [year |-> PeriodYear(keys[k]), month |-> PeriodMonth(keys[k]),
                 monthly_revenue |->
                     RSum([j \in 1..Len(grp) |-> grp[j].net_revenue])]]

\* rev_grp merged with dim_time on date_key, grouped by (year, month)
MonthlyRev(rev_grp, dt) ==
    LET daily == SelectSeq(rev_grp,
                    LAMBDA r : \E t \in Range(dt.rows) : t.date_key = r.date_key)
        ym(r) == LET t == CHOOSE t \in Range(dt.rows) : t.date_key = r.date_key
                 IN  t.year * 12 + (t.month - 1)
        keys == SortedSeq({ym(daily[j]) : j \in 1..Len(daily)})
    IN  [k \in 1..Len(keys) |->
            LET grp == SelectSeq(daily, LAMBDA r : ym(r) = keys[k])
            IN  [year |-> PeriodYear(keys[k]), month |-> PeriodMonth(keys[k]),
                 monthly_revenue |->
                     RSum([j \in 1..Len(grp) |-> grp[j].net_revenue])]]

\* the month end is looked for on the 31st
MonthEnd_Day31(dt, y, m) ==
    LET ends == {t.date_key : t \in {r \in Range(dt.rows) :
                    r.day = 31 /\ r.year = y /\ r.month = m}}
    IN  IF ends = {} THEN None
        ELSE CHOOSE x \in ends : \A z \in ends : z <= x

\* the is_month_end filter is left out: the last day the calendar has
MonthEnd_LastDay(dt, y, m) ==
    LET ends == {t.date_key : t \in {r \in Range(dt.rows) :
                    r.year = y /\ r.month = m}}
    IN  IF ends = {} THEN None
        ELSE CHOOSE x \in ends : \A z \in ends : z <= x

\* month_end.get((y, m)): the largest date_key flagged is_month_end
MonthEnd(dt, y, m) ==
    LET ends == {t.date_key : t \in {r \in Range(dt.rows) :
                    r.is_month_end = 1 /\ r.year = y /\ r.month = m}}
    IN  IF ends = {} THEN None
        ELSE CHOOSE x \in ends : \A z \in ends : z <= x

base_weights == <<<<1, 5>>, <<3, 20>>, <<1, 4>>, <<3, 20>>, <<1, 10>>, <<3, 20>>>>

\* w = np.array([...][: len(cc)]); w = w / w.sum()
Weights(n) ==
    LET w == SubSeq(base_weights, 1, IF n < Len(base_weights) THEN n
                                     ELSE Len(base_weights))
    IN  [k \in 1..Len(w) |-> RDiv(w[k], RSum(w))]

\* numpy can multiply two vectors of these lengths
Broadcastable(a, b) == Len(a) = Len(b) \/ Len(a) = 1 \/ Len(b) = 1

\* the perturbed weights are not renormalised
WAdj_NoRenorm(w, noise) ==
    [k \in 1..Len(noise) |-> RMul(IF Len(w) = 1 THEN w[1] ELSE w[k], noise[k])]

\* the perturbed weights are divided by the sum of the base weights
WAdj_BaseSum(w, noise) ==
    [k \in 1..Len(noise) |->
        RDiv(RMul(IF Len(w) = 1 THEN w[1] ELSE w[k], noise[k]), RSum(w))]

\* w_adj = (w * noise) / (w * noise).sum()
WAdj(w, noise) ==
    LET wn == [k \in 1..Len(noise) |->
                  RMul(IF Len(w) = 1 THEN w[1] ELSE w[k], noise[k])]
    IN  [k \in 1..Len(wn) |-> RDiv(wn[k], RSum(wn))]

\* total_opex = -(r.monthly_revenue * OPEX_RATIO)
TotalOpex(monthly_revenue) ==
    RNeg(RMul(monthly_revenue, Rat(cfg.OPEX_RATIO, 100)))

\* the postings of lines 84-88
OpexPostings(posting_date, total_opex, w_adj) ==
    [k \in 1..(IF Len(w_adj) < NRows(dim_cost_center) THEN Len(w_adj)
               ELSE NRows(dim_cost_center)) |->
        Posting(posting_date,
                dept_to_account(dim_cost_center.rows[k].department),
                dim_cost_center.rows[k].cost_center_id,
                RMul(total_opex, w_adj[k]))]

\* df of lines 90-106: posting_id is the position in recs
FactFinancials(r) ==
    DataFrame(<<"posting_id", "date_key", "account_id", "cost_center_id",
                "amount", "currency">>,
              [k \in 1..Len(r) |->
                  [posting_id |-> k, date_key |-> r[k].date_key,
                   account_id |-> r[k].account_id,
                   cost_center_id |-> r[k].cost_center_id,
                   amount |-> r[k].amount, currency |-> r[k].currency]])

\* move the loop over monthly_rev to row i; the function returns after the
\* last row
OpexContinue(monthly_rev, i, r) ==
    /\ recs' = r
    /\ IF i > Len(monthly_rev)
       THEN /\ opex_loop' = NoOpexLoop
            /\ fact_financials' = FactFinancials(r)
            /\ pc' = "write_csv"
       ELSE /\ opex_loop' = [monthly_rev |-> monthly_rev, i |-> i]
            /\ fact_financials' = fact_financials
            /\ pc' = "opex_loop"

\* the COGS loop runs before the revenue loop
InitialPostings_CogsFirst(tx) ==
    CogsPostings(CogsGrp(tx)) \o RevenuePostings(RevGrp(tx))

\* recs after the revenue loop and the COGS loop
InitialPostings(tx) ==
    RevenuePostings(RevGrp(tx)) \o CogsPostings(CogsGrp(tx))

\* lines 32-72: revenue and COGS postings, monthly revenue
generate_fact_financials_aggregate ==
    /\ pc = "generate_fact_financials"
    /\ LET tx == TxMerged(fact_transactions, dim_product)
       IN  OpexContinue(MonthlyRev(RevGrp(tx), dim_time), 1, InitialPostings(tx))
    /\ NoDraw
    /\ UNCHANGED <<runVars, dim_time, custVars, prodVars, dim_account,
                   dim_cost_center, txVars>>

\* rng.normal(1.0, 0.05, size=len(cc))
NoiseDraws == [1..NRows(dim_cost_center) -> draws.noise]

\* one pass of the loop over monthly_rev
opex_month ==
    /\ pc = "opex_loop"
    /\ LET r == opex_loop.monthly_rev[opex_loop.i]
           posting_date == MonthEnd(dim_time, r.year, r.month)
           w == Weights(NRows(dim_cost_center))
       IN  IF posting_date = None
           THEN /\ OpexContinue(opex_loop.monthly_rev, opex_loop.i + 1, recs)
                /\ NoDraw
           ELSE \E noise \in Stream(NoiseDraws) :
                   /\ Consume(noise)
                   /\ IF Broadcastable(w, noise)
                      THEN OpexContinue(opex_loop.monthly_rev, opex_loop.i + 1,
                              recs \o OpexPostings(posting_date,
                                         TotalOpex(r.monthly_revenue),
                                         WAdj(w, noise)))
                      ELSE \* ValueError: operands could not be broadcast
                           /\ pc' = "ValueError"
                           /\ UNCHANGED finVars
    /\ UNCHANGED <<runVars, dim_time, custVars, prodVars, dim_account,
                   dim_cost_center, txVars>>

-----------------------------------------------------------------------------
(* src/synthetic_pipeline.py *)

\* main() has returned, or an exception has ended the process
Terminated == {"done", "KeyError", "ValueError"}

CsvNames ==
    {"dim_time.csv", "dim_customer.csv", "dim_product.csv", "dim_account.csv",
     "dim_cost_center.csv", "fact_transactions.csv", "fact_financials.csv"}

write_csv ==
    /\ pc = "write_csv"
    /\ files' = CsvNames
    /\ pc' = "done"
    /\ NoDraw
    /\ UNCHANGED <<cfg, draws, run, prev, dim_time, custVars, prodVars,
                   dim_account, dim_cost_center, txVars, finVars>>

-----------------------------------------------------------------------------
(* The configurations and draws explored *)

\* one value for every draw
Narrow ==
    [uacq |-> {0}, uchurn |-> {50}, month |-> {2},
     segment |-> {"Retail"}, region |-> {"North"}, risk |-> {600},
     category |-> {"Subscription"}, uprice |-> {0}, zratio |-> {0},
     spend |-> {ROne}, ntx |-> {0, 1}, udate |-> {0}, uprod |-> {0},
     qty |-> {1}, lognormal |-> {ROne}, channel |-> {"Online"},
     noise |-> {ROne}]

\* the draws that decide a customer's life
Lifecycle ==
    [Narrow EXCEPT !.uacq = {0, 14, 55, 456, 999}, !.uchurn = {0, 50},
                   !.month = {1, 2, 12},
                   !.segment = {"Retail", "SME", "Corporate"},
                   !.region = {"North", "International"},
                   !.risk = {250, 600, 900}]

TwoCustomers ==
    [Narrow EXCEPT !.uacq = {0, 14, 55, 456}, !.uchurn = {0, 50},
                   !.month = {2, 12}, !.segment = {"Retail", "SME"}]

\* the draws that decide the products and the money of a transaction
Pricing ==
    [Narrow EXCEPT !.category = {"Subscription", "Service", "Loan", "Advisory"},
                   !.uprice = {0, 50}, !.zratio = {-5, 0, 5},
                   !.segment = {"Retail", "Corporate"},
                   !.spend = {<<1, 2>>, <<4, 1>>},
                   !.uprod = {0, 99}, !.qty = {0, 2},
                   !.lognormal = {<<4, 5>>, <<5, 4>>},
                   !.channel = {"Online", "Partner"}]

\* the draws that decide which postings there are
Ledger ==
    [Narrow EXCEPT !.category = {"Subscription", "Loan"},
                   !.ntx = 0..MaxTxPerMonth, !.udate = {0, 99},
                   !.uprod = {0, 99}, !.qty = {0, 2},
                   !.noise = {<<9, 10>>, <<21, 20>>}]

Allocation ==
    [Narrow EXCEPT !.ntx = 0..MaxTxPerMonth, !.udate = {0, 99},
                   !.noise = {<<9, 10>>, ROne, <<21, 20>>}]

Scenario(c, d) == [cfg |-> c, draws |-> d]

LifecycleA == Scenario(Config(CalA[1], CalA[2], 1, 1, 1, 12, 25), Lifecycle)
LifecycleB == Scenario(Config(CalB[1], CalB[2], 1, 1, 1, 12, 25), Lifecycle)
AlwaysChurn == Scenario(Config(CalA[1], CalA[2], 1, 1, 1, 100, 25), Lifecycle)
NeverChurn == Scenario(Config(CalB[1], CalB[2], 2, 1, 1, 0, 25), TwoCustomers)
NeverChurnA == Scenario(Config(CalA[1], CalA[2], 1, 1, 1, 0, 25), Lifecycle)
TwoCustomersA == Scenario(Config(CalA[1], CalA[2], 2, 1, 2, 12, 25), TwoCustomers)
PricingB == Scenario(Config(CalB[1], CalB[2], 1, 1, 1, 12, 25), Pricing)
LedgerA == Scenario(Config(CalA[1], CalA[2], 1, 2, 2, 12, 25),
                    [Ledger EXCEPT !.category = {"Service", "Loan"}])
LedgerB == Scenario(Config(CalB[1], CalB[2], 1, 2, 3, 12, 100),
                    [Ledger EXCEPT !.qty = {2}])
AllocationOne == Scenario(Config(CalA[1], CalA[2], 1, 1, 1, 12, 25), Allocation)
AllocationZero == Scenario(Config(CalA[1], CalA[2], 1, 1, 3, 12, 0), Allocation)
SevenCostCenters == Scenario(Config(CalB[1], CalB[2], 1, 1, 7, 12, 25), Narrow)

Scenarios ==
    { LifecycleA, LifecycleB, AlwaysChurn, NeverChurn, NeverChurnA,
      TwoCustomersA, PricingB,
      LedgerA, LedgerB, AllocationOne, AllocationZero, SevenCostCenters }

\* configurations outside the documented ranges
ChurnRateTooLarge == Scenario(Config(CalA[1], CalA[2], 1, 1, 1, 150, 25), Lifecycle)
OpexRatioTooLarge == Scenario(Config(CalA[1], CalA[2], 1, 1, 2, 12, 125), Allocation)
NoCostCenter == Scenario(Config(CalB[1], CalB[2], 1, 1, 0, 12, 25), Allocation)

InvalidScenarios == {ChurnRateTooLarge, OpexRatioTooLarge, NoCostCenter}

\* configurations whose multiplier tables lack a key of the calendar:
\* a quarter with and without an earlier month that is generated, and every
\* year
NoFourthQuarter ==
    Scenario([LifecycleB.cfg EXCEPT !.REVENUE_SEASONALITY = Without(@, {4})],
             Lifecycle)
NoFirstQuarter ==
    Scenario([LedgerB.cfg EXCEPT !.REVENUE_SEASONALITY = Without(@, {1})],
             Ledger)
NoMacroShocks ==
    Scenario([LedgerA.cfg EXCEPT !.MACRO_SHOCKS = Without(@, DOMAIN @)],
             Ledger)

SparseScenarios == {NoFourthQuarter, NoFirstQuarter, NoMacroShocks}

\* the scenarios that are run twice
TwoRunScenarios == {LifecycleB, LedgerB, SevenCostCenters}

Init == \E s \in Scenarios : InitWith(s.cfg, s.draws, FALSE)

Next ==
    \/ generate_dim_time
    \/ generate_dim_customer_acq
    \/ churn_trial
    \/ churn_append
    \/ generate_dim_customer_attrs
    \/ generate_dim_product_categories
    \/ product_loop
    \/ generate_dim_account
    \/ generate_dim_cost_center
    \/ generate_fact_transactions_spend
    \/ tx_month
    \/ tx_one
    \/ generate_fact_financials_aggregate
    \/ opex_month
    \/ write_csv

Spec == Init /\ [][Next]_vars

\* the pipeline under configurations the documented ranges exclude
InitAnyConfig ==
    \E s \in Scenarios \cup InvalidScenarios : InitWith(s.cfg, s.draws, FALSE)

SpecAnyConfig == InitAnyConfig /\ [][Next]_vars

\* the pipeline under multiplier tables with and without missing keys
InitAnyTables ==
    \E s \in Scenarios \cup SparseScenarios : InitWith(s.cfg, s.draws, FALSE)

SpecAnyTables == InitAnyTables /\ [][Next]_vars

\* python -m src.synthetic_pipeline, a second time: a new process imports
\* src.utils again, which seeds the generator with RNG_SEED again
second_run ==
    /\ pc \in Terminated
    /\ run = 1
    /\ tape.on
    /\ prev' = <<[tables |-> Tables, pc |-> pc]>>
    /\ run' = 2
    /\ pos' = 0
    /\ pc' = "generate_dim_time"
    /\ dim_time' = NoTable
    /\ acq_dates' = <<>>
    /\ churn_dates' = <<>>
    /\ churn' = NoChurn
    /\ trials' = <<>>
    /\ dim_customer' = NoTable
    /\ product_categories' = <<>>
    /\ price_ratio' = <<>>
    /\ dim_product' = NoTable
    /\ dim_account' = NoTable
    /\ dim_cost_center' = NoTable
    /\ spend_map' = <<>>
    /\ tx_loop' = NoTxLoop
    /\ tx_records' = <<>>
    /\ fact_transactions' = NoTable
    /\ recs' = <<>>
    /\ opex_loop' = NoOpexLoop
    /\ fact_financials' = NoTable
    /\ UNCHANGED <<cfg, draws, tape, files>>

InitTwoRuns == \E s \in TwoRunScenarios : InitWith(s.cfg, s.draws, TRUE)

NextTwoRuns == Next \/ second_run

SpecTwoRuns == InitTwoRuns /\ [][NextTwoRuns]_vars

\* the pipeline as the interpreter runs it: a statement that can be executed
\* is executed
LiveScenarios ==
    {LifecycleB, AlwaysChurn, NeverChurn, SevenCostCenters, NoFourthQuarter}

InitLive == \E s \in LiveScenarios : InitWith(s.cfg, s.draws, FALSE)

\* the statements that only move data and control
ControlSteps ==
    \/ generate_dim_time
    \/ generate_dim_customer_acq
    \/ churn_trial
    \/ churn_append
    \/ generate_dim_customer_attrs
    \/ generate_dim_product_categories
    \/ product_loop
    \/ generate_dim_account
    \/ generate_dim_cost_center
    \/ generate_fact_transactions_spend
    \/ tx_month
    \/ write_csv

\* the positions of tx_one, generate_fact_financials_aggregate and
\* opex_month: each is enabled in every state at its position
AtArithmetic ==
    \/ pc = "tx_loop" /\ tx_loop.left > 0
    \/ pc = "generate_fact_financials"
    \/ pc = "opex_loop"

\* Python runs main() without preemption: weak fairness of every step.  For
\* the three arithmetic steps it is written with the position in place of
\* ENABLED, a step from such a position being a step of that action.
Fairness ==
    /\ WF_vars(ControlSteps)
    /\ []<>(~AtArithmetic) \/ []<><<AtArithmetic>>_vars

SpecLive == InitLive /\ [][Next]_vars /\ Fairness

\* generate_dim_time() alone, for calendars that start shortly before the
\* end of a month: February in a common year, a leap year, a century year
\* and a 400th year, a month of 30 days, a year end, and mid-month
CalendarStarts ==
    { Timestamp(2019, 2, 25), Timestamp(2020, 2, 25), Timestamp(2100, 2, 26),
      Timestamp(2000, 2, 26), Timestamp(2021, 4, 28), Timestamp(2023, 12, 29),
      Timestamp(2022, 7, 10) }

InitCalendar ==
    \E start \in CalendarStarts : \E n \in 1..MaxCalendarDays :
        InitWith(Config(start, start + n - 1, 1, 1, 1, 12, 25), Narrow, FALSE)

NextCalendar == generate_dim_time

SpecCalendar == InitCalendar /\ [][NextCalendar]_vars

\* the two cost-center builders of the repository alone, the one the
\* pipeline calls and the one of the standalone generator
InitCostCenters ==
    \E n \in 1..MaxCostCenters :
        \E entry \in {"generate_dim_cost_center",
                       "legacy_generate_dim_cost_center"} :
            InitAt(Config(CalA[1], CalA[2], 1, 1, n, 12, 25), Narrow, FALSE,
                   entry)

NextCostCenters == generate_dim_cost_center \/ legacy_generate_dim_cost_center

SpecCostCenters == InitCostCenters /\ [][NextCostCenters]_vars

-----------------------------------------------------------------------------
(* Properties *)

Customers == Range(dim_customer.rows)
Days == Range(dim_time.rows)
Transactions == Range(fact_transactions.rows)
Postings == Range(fact_financials.rows)

RevenueAccounts == {4000, 4001, 4002}
CogsAccounts == {5000}
OpexAccounts == {6000, 6100, 6200, 6300}

\* the (year, month) of a YYYYMMDD key, as a month number
KeyPeriod(dk) == (dk \div 10000) * 12 + ((dk \div 100) % 100) - 1

\* the amounts of the postings of the given accounts in a month, in id order
AmountsOf(accounts, period) ==
    LET sel == SelectSeq(fact_financials.rows,
                  LAMBDA p : p.account_id \in accounts
                             /\ KeyPeriod(p.date_key) = period)
    IN  [k \in 1..Len(sel) |-> sel[k].amount]

\* minus (the revenue posted in a month times the opex ratio)
ExpectedOpex(period) ==
    RNeg(RMul(RSum(AmountsOf(RevenueAccounts, period)),
              Rat(cfg.OPEX_RATIO, 100)))

TablesProduced == pc \in {"write_csv", "done"}

\* C1: every customer is active exactly when it has no churn date, and a
\* churn date is strictly after the acquisition date and not after the
\* dataset end date.
CustomerInvariant ==
    \A c \in Customers :
        /\ (c.is_active = 1) <=> (c.churn_date = NaT)
        /\ c.is_active \in {0, 1}
        /\ c.churn_date # NaT =>
              /\ c.acquisition_date < c.churn_date
              /\ c.churn_date <= cfg.END_DATE

\* a churned customer and an active customer in one customer table
CustomerInvariantWitness ==
    /\ \E c \in Customers : c.churn_date # NaT /\ c.is_active = 0
    /\ \E c \in Customers : c.churn_date = NaT /\ c.is_active = 1

\* C2: revenue postings have no cost center and an amount >= 0, COGS
\* postings have no cost center and an amount <= 0, OPEX postings have a
\* cost center and an amount <= 0.
PostingShapes ==
    \A p \in Postings \cup Range(recs) :
        /\ p.account_id \in RevenueAccounts \cup CogsAccounts \cup OpexAccounts
        /\ p.account_id \in RevenueAccounts =>
              p.cost_center_id = NaN /\ p.amount[1] >= 0
        /\ p.account_id \in CogsAccounts =>
              p.cost_center_id = NaN /\ p.amount[1] <= 0
        /\ p.account_id \in OpexAccounts =>
              /\ \E cc \in Range(dim_cost_center.rows) :
                    cc.cost_center_id = p.cost_center_id
              /\ p.amount[1] <= 0

\* a posting table with the three families, none of them at zero
PostingShapesWitness ==
    /\ \E p \in Postings : p.account_id \in RevenueAccounts /\ p.amount[1] > 0
    /\ \E p \in Postings : p.account_id \in CogsAccounts /\ p.amount[1] < 0
    /\ \E p \in Postings : p.account_id \in OpexAccounts /\ p.amount[1] < 0

\* C3: the second run with the same configuration and the same seed ends as
\* the first run ended, with the same seven tables row for row.
Reproducible ==
    (run = 2 /\ pc \in Terminated) =>
        /\ prev[1].pc = pc
        /\ prev[1].tables = Tables

\* a second run that has produced transactions and postings
ReproducibleWitness ==
    /\ run = 2
    /\ pc = "done"
    /\ NRows(fact_transactions) > 1
    /\ \E p \in Postings : p.account_id \in OpexAccounts

\* the documented ranges of the configuration
ValidConfig(c) ==
    /\ c.START_DATE <= c.END_DATE
    /\ c.NUM_CUSTOMERS > 0 /\ c.NUM_PRODUCTS > 0 /\ c.NUM_COST_CENTERS > 0
    /\ c.ANNUAL_CHURN_RATE \in 0..100
    /\ c.BASE_MARGIN \in 0..100
    /\ c.OPEX_RATIO \in 0..100

\* C4: under an invalid configuration no stage runs, no table is produced
\* and no file is written.
InvalidConfigFailsFast ==
    ~ValidConfig(cfg) =>
        /\ pc = "generate_dim_time"
        /\ \A t \in {dim_time, dim_customer, dim_product, dim_account,
                     dim_cost_center, fact_transactions, fact_financials} :
              t = NoTable
        /\ files = {}

\* the months a customer is active in, from the customer table
ActiveMonths(c) ==
    Period(c.acquisition_date) ..
    Period(IF c.churn_date = NaT THEN cfg.END_DATE ELSE c.churn_date)

\* C5: every transaction of a customer is dated in a month between the
\* customer's acquisition month and churn month (dataset-end month when the
\* customer never churned), and that month is in the calendar.
TransactionsInActiveMonths ==
    \A t \in Transactions :
        /\ \E c \in Customers :
              /\ c.customer_id = t.customer_id
              /\ KeyPeriod(t.date_key) \in ActiveMonths(c)
        /\ \E d \in Days : d.year * 12 + (d.month - 1) = KeyPeriod(t.date_key)

\* a transaction of a customer who is inactive in some month of the calendar
TransactionsInActiveMonthsWitness ==
    \E t \in Transactions : \E c \in Customers :
        /\ c.customer_id = t.customer_id
        /\ \E d \in Days : d.year * 12 + (d.month - 1) \notin ActiveMonths(c)

\* C6: every transaction refers to a calendar day, a customer and a product
\* that exist, and has an integer quantity >= 1.
TransactionReferences ==
    \A t \in Transactions :
        /\ \E d \in Days : d.date_key = t.date_key
        /\ \E c \in Customers : c.customer_id = t.customer_id
        /\ \E p \in Range(dim_product.rows) : p.product_id = t.product_id
        /\ t.quantity \in Nat /\ t.quantity >= 1

\* transactions of two products, one with the floor quantity
TransactionReferencesWitness ==
    /\ \E t \in Transactions : t.product_id = 2 /\ t.quantity = 1
    /\ \E t \in Transactions : t.product_id = 1

\* the months that have OPEX postings
OpexMonths ==
    {KeyPeriod(p.date_key) : p \in {q \in Postings : q.account_id \in OpexAccounts}}

\* C7: the OPEX postings of a month sum to minus (the month's revenue
\* postings times the opex ratio), whatever the noise.
MonthlyOpexTotal ==
    \A m \in OpexMonths :
        RSum(AmountsOf(OpexAccounts, m)) = ExpectedOpex(m)

\* a month whose OPEX is divided between two cost centers in another
\* proportion than the base weights 0.2 : 0.15
MonthlyOpexTotalWitness ==
    /\ NRows(dim_cost_center) = 2
    /\ \E m \in OpexMonths :
          LET a == AmountsOf(OpexAccounts, m)
          IN  /\ Len(a) = 2
              /\ a[1][1] < 0
              /\ RMul(a[1], RInt(3)) # RMul(a[2], RInt(4))

\* C8: every OPEX posting is dated on the latest day of its month that is
\* flagged is_month_end, and the month has revenue postings.
OpexOnMonthEnd ==
    \A p \in Postings :
        p.account_id \in OpexAccounts =>
            /\ \E d \in Days :
                  /\ d.date_key = p.date_key
                  /\ d.is_month_end = 1
                  /\ \A e \in Days :
                        (e.is_month_end = 1 /\ e.year = d.year /\ e.month = d.month)
                            => e.date_key <= d.date_key
            /\ \E r \in Postings :
                  /\ r.account_id \in RevenueAccounts
                  /\ KeyPeriod(r.date_key) = KeyPeriod(p.date_key)

\* OPEX postings for one month, next to revenue of a month that has no
\* month-end day in the calendar
OpexOnMonthEndWitness ==
    /\ TablesProduced
    /\ OpexMonths # {}
    /\ \E r \in Postings :
          /\ r.account_id \in RevenueAccounts
          /\ KeyPeriod(r.date_key) \notin OpexMonths

\* the months that have revenue postings and a day flagged is_month_end
RevenueMonthsWithEnd ==
    {KeyPeriod(r.date_key) : r \in {q \in Postings : q.account_id \in RevenueAccounts}}
    \cap {d.year * 12 + (d.month - 1) : d \in {e \in Days : e.is_month_end = 1}}

\* C9: with one cost center, a month with revenue postings and a month-end
\* date has exactly one OPEX posting, on that date, of minus (monthly revenue
\* times opex ratio) exactly.
SingleCostCenterOpex ==
    (TablesProduced /\ NRows(dim_cost_center) = 1) =>
        \A m \in RevenueMonthsWithEnd :
            LET ox == SelectSeq(fact_financials.rows,
                         LAMBDA p : p.account_id \in OpexAccounts
                                    /\ KeyPeriod(p.date_key) = m)
            IN  /\ Len(ox) = 1
                /\ \E d \in Days : d.date_key = ox[1].date_key /\ d.is_month_end = 1
                /\ ox[1].cost_center_id = 1
                /\ ox[1].amount = ExpectedOpex(m)

\* one cost center, opex ratio 0.25 and a month with revenue that is posted
SingleCostCenterOpexWitness ==
    /\ TablesProduced
    /\ NRows(dim_cost_center) = 1
    /\ cfg.OPEX_RATIO = 25
    /\ \E m \in RevenueMonthsWithEnd : ExpectedOpex(m)[1] < 0

FamilyRank(p) ==
    IF p.account_id \in RevenueAccounts THEN 1
    ELSE IF p.account_id \in CogsAccounts THEN 2 ELSE 3

\* C10: posting ids are 1..n in row order; revenue ids are below COGS ids,
\* COGS ids below OPEX ids; the OPEX postings of a month have consecutive
\* ids in cost-center order.
PostingIdOrder ==
    /\ \A k \in 1..NRows(fact_financials) : fact_financials.rows[k].posting_id = k
    /\ \A p, q \in Postings :
          FamilyRank(p) < FamilyRank(q) => p.posting_id < q.posting_id
    /\ \A p, q \in Postings :
          (/\ p.account_id \in OpexAccounts /\ q.account_id \in OpexAccounts
           /\ p.date_key = q.date_key)
              => q.posting_id - p.posting_id = q.cost_center_id - p.cost_center_id

\* the three families in one table, with OPEX for several cost centers
PostingIdOrderWitness ==
    /\ \E p \in Postings : p.account_id \in RevenueAccounts /\ p.posting_id > 1
    /\ \E p \in Postings : p.account_id \in CogsAccounts
    /\ \E p \in Postings : p.account_id \in OpexAccounts /\ p.cost_center_id > 1

\* the revenue account of a transaction, from the category of its product
RevenueAccountOf(t) ==
    LET p == CHOOSE q \in Range(dim_product.rows) : q.product_id = t.product_id
    IN  CASE p.category = "Subscription" -> 4000
          [] p.category = "Service" -> 4001
          [] OTHER -> 4002

\* the transactions of a date and a revenue account, in table order
TransactionsOf(dk, account) ==
    SelectSeq(fact_transactions.rows,
              LAMBDA t : t.date_key = dk /\ RevenueAccountOf(t) = account)

\* the transactions of a date, in table order
TransactionsOn(dk) ==
    SelectSeq(fact_transactions.rows, LAMBDA t : t.date_key = dk)

\* the ids of the postings of a date on the given accounts
PostingIds(dk, accounts) ==
    {k \in 1..NRows(fact_financials) :
        /\ fact_financials.rows[k].date_key = dk
        /\ fact_financials.rows[k].account_id \in accounts}

\* C11: there is exactly one revenue posting for each (date, revenue account)
\* that has a transaction, the account being 4000 for Subscription, 4001 for
\* Service and 4002 otherwise; its amount is the sum of net_revenue of those
\* transactions, and the revenue postings total the net_revenue of all
\* transactions.
RevenueGrouping ==
    TablesProduced =>
        /\ \A t \in Transactions :
              Cardinality(PostingIds(t.date_key, {RevenueAccountOf(t)})) = 1
        /\ \A p \in Postings :
              p.account_id \in RevenueAccounts =>
                  LET txs == TransactionsOf(p.date_key, p.account_id)
                  IN  /\ txs # <<>>
                      /\ p.amount = RSum([k \in 1..Len(txs) |-> txs[k].net_revenue])
        /\ LET rev == SelectSeq(fact_financials.rows,
                         LAMBDA p : p.account_id \in RevenueAccounts)
           IN  RSum([k \in 1..Len(rev) |-> rev[k].amount])
               = RSum([k \in 1..NRows(fact_transactions) |->
                          fact_transactions.rows[k].net_revenue])

\* a Service posting that sums two transactions of different revenue
RevenueGroupingWitness ==
    /\ TablesProduced
    /\ \E p \in Postings :
          /\ p.account_id = 4001
          /\ LET txs == TransactionsOf(p.date_key, p.account_id)
             IN  Len(txs) = 2 /\ txs[1].net_revenue # txs[2].net_revenue

\* C12: there is exactly one COGS posting for each date that has a
\* transaction, on account 5000, of minus the summed direct_cost of all the
\* transactions of that date; no other posting is outside revenue and OPEX.
CogsGrouping ==
    TablesProduced =>
        /\ \A t \in Transactions :
              Cardinality(PostingIds(t.date_key, {5000})) = 1
        /\ \A p \in Postings :
              p.account_id = 5000 =>
                  LET txs == TransactionsOn(p.date_key)
                  IN  /\ txs # <<>>
                      /\ p.amount =
                            RNeg(RSum([k \in 1..Len(txs) |-> txs[k].direct_cost]))
        /\ \A p \in Postings :
              p.account_id \notin RevenueAccounts \cup OpexAccounts =>
                  p.account_id = 5000

\* one COGS posting for a date with transactions on two revenue accounts
CogsGroupingWitness ==
    /\ TablesProduced
    /\ \E p \in Postings :
          /\ p.account_id = 5000
          /\ LET txs == TransactionsOn(p.date_key)
             IN  /\ Len(txs) = 2
                 /\ RevenueAccountOf(txs[1]) # RevenueAccountOf(txs[2])
                 /\ p.amount[1] < 0

\* C13: with annual churn probability 0 no customer churns: every churn date
\* the loop appends is absent, and every customer row has no churn date and
\* is_active 1.
NoChurnAtRateZero ==
    cfg.ANNUAL_CHURN_RATE = 0 =>
        /\ \A i \in 1..Len(churn_dates) : churn_dates[i] = NaT
        /\ \A c \in Customers : c.churn_date = NaT /\ c.is_active = 1

\* rate 0, and a customer table after Bernoulli trials were made for every
\* customer
NoChurnAtRateZeroWitness ==
    /\ cfg.ANNUAL_CHURN_RATE = 0
    /\ NRows(dim_customer) = 2
    /\ \A i \in 1..Len(trials) : Len(trials[i]) > 0

\* the last day of a month, from the year and month columns
LastDayOf(year, month) ==
    CASE month \in {1, 3, 5, 7, 8, 10, 12} -> 31
      [] month \in {4, 6, 9, 11} -> 30
      [] month = 2 ->
            IF year % 400 = 0 THEN 29
            ELSE IF year % 100 = 0 THEN 28
            ELSE IF year % 4 = 0 THEN 29 ELSE 28

\* row b is the calendar day after row a
NextDay(a, b) ==
    IF a.day < LastDayOf(a.year, a.month)
    THEN b.year = a.year /\ b.month = a.month /\ b.day = a.day + 1
    ELSE /\ b.day = 1
         /\ IF a.month < 12
            THEN b.year = a.year /\ b.month = a.month + 1
            ELSE b.year = a.year + 1 /\ b.month = 1

\* C14: the calendar has (end - start) + 1 rows, one per day from start to
\* end without gap or repeat, date_key is the YYYYMMDD of the day and
\* strictly increasing, and is_month_end is 1 exactly on the last day of a
\* month.
CalendarComplete ==
    dim_time # NoTable =>
        /\ NRows(dim_time) = (cfg.END_DATE - cfg.START_DATE) + 1
        /\ \A k \in 1..NRows(dim_time) :
              LET r == dim_time.rows[k]
              IN  /\ r.date = cfg.START_DATE + (k - 1)
                  /\ r.date_key = r.year * 10000 + r.month * 100 + r.day
                  /\ (r.is_month_end = 1) <=> (r.day = LastDayOf(r.year, r.month))
                  /\ r.is_month_end \in {0, 1}
        /\ \A k \in 1..(NRows(dim_time) - 1) :
              /\ NextDay(dim_time.rows[k], dim_time.rows[k + 1])
              /\ dim_time.rows[k].date_key < dim_time.rows[k + 1].date_key

\* a calendar over the end of February of a leap year: the 28th is not a
\* month end, the 29th is
CalendarCompleteWitness ==
    /\ \E r \in Days : r.date_key = 20200228 /\ r.is_month_end = 0
    /\ \E r \in Days : r.date_key = 20200229 /\ r.is_month_end = 1
    /\ \E r \in Days : r.date_key = 20200301

\* generate_fact_transactions() has returned its table
SamplerReturned ==
    pc \in {"generate_fact_financials", "opex_loop", "write_csv", "done",
            "ValueError"}

\* the months of the calendar
CalendarMonths == {d.year * 12 + (d.month - 1) : d \in Days}

\* C15: the Transaction Sampler does not raise, and the table it returns has
\* the eight transaction columns in their order, with no row when no
\* transaction was produced.
EmptyTransactionTable ==
    /\ pc # "KeyError"
    /\ SamplerReturned =>
          /\ fact_transactions.columns =
                <<"transaction_id", "date_key", "customer_id", "product_id",
                  "quantity", "net_revenue", "direct_cost", "channel">>
          /\ NRows(fact_transactions) = Len(tx_records)

\* no transaction: one customer drew zero in every active month of the
\* calendar, another has no active month in the calendar
EmptyTransactionTableWitness ==
    /\ SamplerReturned
    /\ NRows(fact_transactions) = 0
    /\ \E c \in Customers : ActiveMonths(c) \cap CalendarMonths # {}
    /\ \E c \in Customers : ActiveMonths(c) \cap CalendarMonths = {}

\* C16: a year missing from the macro table and a quarter missing from the
\* seasonality table count as multiplier 1.0: the month's generation proceeds
\* and does not fail.
MissingKeysDefaultToOne ==
    /\ pc # "KeyError"
    /\ \A k \in 1..Len(tx_records) :
          LET period == KeyPeriod(tx_records[k][2])
          IN  (/\ PeriodYear(period) \notin DOMAIN cfg.MACRO_SHOCKS
               /\ draws.lognormal = {ROne} /\ draws.spend = {ROne}
               /\ draws.segment = {"Retail"})
                  => \E p \in Range(dim_product.rows) :
                        /\ p.product_id = tx_records[k][3]
                        /\ tx_records[k][5] =
                              RMul(RMul(p.base_price, RInt(tx_records[k][4])),
                                   Get(cfg.REVENUE_SEASONALITY,
                                       QuarterOf(PeriodMonth(period)), ROne))

\* the department of cost center k
DepartmentOf(k) ==
    CASE k = 1 -> "Sales" [] k = 2 -> "Marketing" [] k = 3 -> "Operations"
      [] k = 4 -> "IT" [] k = 5 -> "HR" [] k = 6 -> "HQ"
      [] OTHER -> "Dept" \o ToString(k)

\* the table of M cost centers the claim describes
IsCostCenterTable(t, M) ==
    /\ t.columns = <<"cost_center_id", "department", "country", "manager">>
    /\ NRows(t) = M
    /\ \A k \in 1..NRows(t) :
          /\ t.rows[k].cost_center_id = k
          /\ t.rows[k].department = DepartmentOf(k)
          /\ t.rows[k].country = "DE"
          /\ t.rows[k].manager = "Manager " \o DepartmentOf(k)

\* C17: for every count M >= 1 a Cost-Center Builder returns, and returns M
\* rows with ids 1..M in order, the six named departments first and DeptK for
\* row K > 6, country DE and manager 'Manager <department>'.
CostCenterBuilder ==
    /\ pc \in {"generate_fact_transactions", "legacy_generate_fact_transactions",
               "ValueError"}
          => /\ pc # "ValueError"
             /\ IsCostCenterTable(dim_cost_center, cfg.NUM_COST_CENTERS)

\* the same of the builder the pipeline calls, src/generate/cost_centers.py
PipelineCostCenterBuilder ==
    pc = "generate_fact_transactions"
        => IsCostCenterTable(dim_cost_center, cfg.NUM_COST_CENTERS)

\* the position of a customer in the Customer table
CustomerPosition(cid) ==
    CHOOSE i \in 1..NRows(dim_customer) : dim_customer.rows[i].customer_id = cid

\* C18: transaction ids are 1..n in row order and are assigned when the loops
\* are over; the rows are in the order of production: customers in
\* Customer-table order, the months of a customer ascending, the
\* transactions of a month in draw order, not sorted by date.
TransactionIdOrder ==
    /\ pc = "tx_loop" => fact_transactions = NoTable
    /\ SamplerReturned =>
          /\ \A k \in 1..NRows(fact_transactions) :
                LET t == fact_transactions.rows[k]
                IN  /\ t.transaction_id = k
                    /\ <<t.customer_id, t.date_key, t.product_id, t.quantity,
                         t.net_revenue, t.direct_cost, t.channel>> = tx_records[k]
          /\ \A j, k \in 1..NRows(fact_transactions) :
                LET a == fact_transactions.rows[j]
                    b == fact_transactions.rows[k]
                IN  j < k =>
                       /\ CustomerPosition(a.customer_id)
                             <= CustomerPosition(b.customer_id)
                       /\ a.customer_id = b.customer_id
                             => KeyPeriod(a.date_key) <= KeyPeriod(b.date_key)

\* two transactions of one month whose ids are not in date order
TransactionIdOrderWitness ==
    /\ SamplerReturned
    /\ \E j, k \in 1..NRows(fact_transactions) :
          LET a == fact_transactions.rows[j]
              b == fact_transactions.rows[k]
          IN  /\ a.transaction_id < b.transaction_id
              /\ a.customer_id = b.customer_id
              /\ a.date_key > b.date_key

\* two customers: the earlier customer's transaction is the later in date
TransactionIdOrderTwoCustomers ==
    /\ SamplerReturned
    /\ \E j, k \in 1..NRows(fact_transactions) :
          LET a == fact_transactions.rows[j]
              b == fact_transactions.rows[k]
          IN  /\ a.transaction_id < b.transaction_id
              /\ a.customer_id < b.customer_id
              /\ a.date_key > b.date_key

\* C19: for every cost-center count, also above six, the OPEX derivation
\* completes without error, and every month with revenue postings and a
\* month-end date gets exactly one OPEX posting per cost center.
OpexForEveryCostCenter ==
    /\ pc # "ValueError"
    /\ TablesProduced =>
          \A m \in RevenueMonthsWithEnd :
              LET ox == SelectSeq(fact_financials.rows,
                           LAMBDA p : p.account_id \in OpexAccounts
                                      /\ KeyPeriod(p.date_key) = m)
              IN  /\ Len(ox) = cfg.NUM_COST_CENTERS
                  /\ \A k \in 1..Len(ox) : ox[k].cost_center_id = k

\* the months of the calendar that have a day flagged is_month_end
MonthsWithEnd ==
    {d.year * 12 + (d.month - 1) : d \in {e \in Days : e.is_month_end = 1}}

\* the months that have revenue postings
RevenueMonths ==
    {KeyPeriod(r.date_key) :
        r \in {q \in Postings : q.account_id \in RevenueAccounts}}

\* C20: every (year, month) of the calendar has a day flagged is_month_end,
\* and every month that has revenue postings has OPEX postings: no month is
\* skipped.
NoMonthSkipped ==
    /\ CalendarMonths \subseteq MonthsWithEnd
    /\ TablesProduced => RevenueMonths \subseteq OpexMonths

\* C20 as amended: every month of the calendar but the last has a day
\* flagged is_month_end, and the last has one exactly when the calendar ends
\* on the last day of that month; in a posting table that is produced, a
\* month with revenue postings has OPEX postings exactly when it has such a
\* day.
OnlyPartialLastMonthSkipped ==
    /\ \A m \in CalendarMonths :
          m \in MonthsWithEnd <=>
              \/ m # Period(cfg.END_DATE)
              \/ \E d \in Days : d.date = cfg.END_DATE /\ d.is_month_end = 1
    /\ TablesProduced =>
          \A m \in RevenueMonths : m \in OpexMonths <=> m \in MonthsWithEnd

\* revenue in a month that got its OPEX and revenue in the last month of a
\* calendar that ends in mid-month, which got none
OnlyPartialLastMonthSkippedWitness ==
    /\ TablesProduced
    /\ \E m \in RevenueMonths : m \in OpexMonths /\ m # Period(cfg.END_DATE)
    /\ Period(cfg.END_DATE) \in RevenueMonths \ MonthsWithEnd
    /\ Period(cfg.END_DATE) \notin OpexMonths

\* whether pass k of the while loop of customer i was a successful trial
Succeeded(i, k) == ChurnEvent(trials[i][k].draws[1])

\* the churn candidate of pass k of customer i
CandidateOf(i, k) == Timestamp(trials[i][k].year, trials[i][k].draws[2], 1)

\* C21: the churn simulation of one customer tries the years from the
\* acquisition year on, one trial a year, and stops at the first successful
\* trial: the month is drawn in a pass exactly when its trial succeeded, no
\* pass follows a successful one, a candidate that is not strictly after the
\* acquisition date leaves the customer without a churn date, and a churn
\* date that is present is the candidate of the first success, the 1st of a
\* month of that year.
StopsAtFirstSuccess ==
    \A i \in 1..Len(trials) :
        LET n == Len(trials[i])
        IN  /\ \A k \in 1..n :
                  /\ trials[i][k].year = YearOf(acq_dates[i]) + k - 1
                  /\ Len(trials[i][k].draws) = 2 <=> Succeeded(i, k)
                  /\ Succeeded(i, k) => k = n
            /\ i <= Len(churn_dates) =>
                  /\ (n > 0 /\ Succeeded(i, n) /\ CandidateOf(i, n) <= acq_dates[i])
                        => churn_dates[i] = NaT
                  /\ churn_dates[i] # NaT =>
                        /\ n > 0 /\ Succeeded(i, n)
                        /\ churn_dates[i] = CandidateOf(i, n)
                        /\ DayOf(churn_dates[i]) = 1
                        /\ YearOf(churn_dates[i]) = trials[i][n].year
            /\ pc \in {"write_csv", "done"} =>
                  dim_customer.rows[i].churn_date = churn_dates[i]

\* a customer whose candidate was discarded and who was not tried again
\* although a later year was left
StopsAtFirstSuccessWitness ==
    /\ pc = "done"
    /\ \E i \in 1..Len(trials) :
          LET n == Len(trials[i])
          IN  /\ n > 0 /\ Succeeded(i, n)
              /\ CandidateOf(i, n) <= acq_dates[i]
              /\ churn_dates[i] = NaT
              /\ trials[i][n].year < YearOf(DateMax)

\* a customer whose first success came after a failed trial and gave the
\* churn date
FirstSuccessAfterFailure ==
    /\ pc = "done"
    /\ \E i \in 1..Len(trials) :
          LET n == Len(trials[i])
          IN  /\ n > 1 /\ Succeeded(i, n)
              /\ churn_dates[i] = CandidateOf(i, n)

\* the transactions of the customer in position i
TransactionsOfCustomer(i) == {t \in Transactions : t.customer_id = i}

\* start <= acquisition_date < start + 3 years, for every customer drawn
AcquisitionWindow ==
    \A i \in 1..Len(acq_dates) :
        /\ cfg.START_DATE <= acq_dates[i]
        /\ acq_dates[i] < AddYears(cfg.START_DATE, 3)

\* C22 as stated: acquisition dates are in [start, start + 3 years), and a
\* customer acquired after the dataset end undergoes no churn trial, has no
\* churn date, is active and has no transaction.
AcquiredAfterEndUntouched ==
    /\ AcquisitionWindow
    /\ \A i \in 1..Len(acq_dates) :
          acq_dates[i] > cfg.END_DATE =>
              /\ trials[i] = <<>>
              /\ i <= Len(churn_dates) => churn_dates[i] = NaT
              /\ i <= NRows(dim_customer) =>
                    /\ dim_customer.rows[i].churn_date = NaT
                    /\ dim_customer.rows[i].is_active = 1
              /\ TransactionsOfCustomer(i) = {}

\* C22, amended: acquisition dates are in [start, start + 3 years); a
\* customer acquired after the dataset end has no churn date and is active;
\* it undergoes one churn trial when it is acquired in the year of the end
\* date and none when acquired in a later year; its transactions, if any,
\* are dated in the month of the end date, and there are none unless it is
\* acquired in that month.
AcquiredAfterEnd ==
    /\ AcquisitionWindow
    /\ \A i \in 1..Len(acq_dates) :
          acq_dates[i] > cfg.END_DATE =>
              /\ Len(trials[i]) <= 1
              /\ YearOf(acq_dates[i]) > YearOf(cfg.END_DATE) => trials[i] = <<>>
              /\ i <= Len(churn_dates) =>
                    /\ churn_dates[i] = NaT
                    /\ YearOf(acq_dates[i]) = YearOf(cfg.END_DATE)
                          => Len(trials[i]) = 1
              /\ i <= NRows(dim_customer) =>
                    /\ dim_customer.rows[i].churn_date = NaT
                    /\ dim_customer.rows[i].is_active = 1
              /\ \A t \in TransactionsOfCustomer(i) :
                    /\ Period(acq_dates[i]) = Period(cfg.END_DATE)
                    /\ KeyPeriod(t.date_key) = Period(cfg.END_DATE)

\* a finished run with a customer acquired after the end date in the month
\* of the end date, who was tried once, successfully, and has a transaction
AcquiredAfterEndWitness ==
    /\ pc = "done"
    /\ \E i \in 1..Len(acq_dates) :
          /\ acq_dates[i] > cfg.END_DATE
          /\ Len(trials[i]) = 1 /\ Succeeded(i, 1)
          /\ dim_customer.rows[i].is_active = 1
          /\ TransactionsOfCustomer(i) # {}

\* a finished run with a customer acquired on the last day but one of the
\* window, in a year after the end date: no trial and no transaction
AcquiredInLaterYear ==
    /\ pc = "done"
    /\ \E i \in 1..Len(acq_dates) :
          /\ acq_dates[i] >= AddYears(cfg.START_DATE, 3) - 2
          /\ trials[i] = <<>>
          /\ TransactionsOfCustomer(i) = {}

\* end.year - acq.year + 1 when that is positive, the years the search of
\* customer i can try
YearsToTry(i) ==
    IF YearOf(acq_dates[i]) > YearOf(cfg.END_DATE) THEN 0
    ELSE YearOf(cfg.END_DATE) - YearOf(acq_dates[i]) + 1

TrialsBounded == \A i \in 1..Len(trials) : Len(trials[i]) <= YearsToTry(i)

\* C23: the churn search of a customer makes at most (end year - acquisition
\* year + 1) trials, whatever the churn probability, 0 and 1 included, and
\* the pipeline ends: it reaches its last statement or the exception that
\* ends it, and does not run for ever.
BoundedSearchAndTermination == [](TrialsBounded) /\ <>(pc \in Terminated)

\* a finished run in which the search of a customer used every year it could
\* try, two of them, without a success
BoundedSearchAndTerminationWitness ==
    /\ pc = "done"
    /\ \E i \in 1..Len(trials) :
          /\ Len(trials[i]) = YearsToTry(i)
          /\ YearsToTry(i) = 2
          /\ ~Succeeded(i, 2)

\* a finished run with churn probability 1: one trial and no more although
\* a second year was left
OneTrialAtRateOne ==
    /\ pc = "done"
    /\ cfg.ANNUAL_CHURN_RATE = 100
    /\ \E i \in 1..Len(trials) : Len(trials[i]) = 1

\* the customer and the product of a transaction
CustomerOf(t) == CHOOSE c \in Customers : c.customer_id = t.customer_id
ProductOf(t) ==
    CHOOSE p \in Range(dim_product.rows) : p.product_id = t.product_id

\* C24: every transaction has net_revenue > 0 and 0 <= direct_cost <
\* net_revenue: direct_cost is net_revenue times the direct_cost_ratio of its
\* product, which is at most 0.75, times the cost multiplier of the
\* customer's segment, which is at most 1.
PositiveGrossMargin ==
    \A t \in Transactions :
        LET dcr == ProductOf(t).direct_cost_ratio
            mult == seg_cost_mult(CustomerOf(t).segment)
        IN  /\ RLess(RZero, t.net_revenue)
            /\ ~RLess(t.direct_cost, RZero)
            /\ RLess(t.direct_cost, t.net_revenue)
            /\ t.direct_cost = RMul(t.net_revenue, RMul(dcr, mult))
            /\ ~RLess(<<3, 4>>, dcr)
            /\ ~RLess(ROne, mult)

\* a transaction of a Retail customer (multiplier 1.00) for a product whose
\* ratio was clamped to 0.75: the cost is three quarters of the revenue
PositiveGrossMarginWitness ==
    \E t \in Transactions :
        /\ CustomerOf(t).segment = "Retail"
        /\ ProductOf(t).direct_cost_ratio = <<3, 4>>
        /\ RMul(t.direct_cost, <<4, 1>>) = RMul(t.net_revenue, <<3, 1>>)

\* the date_keys that carry a posting of one of the given accounts
PostingDates(accounts) == {p.date_key : p \in {q \in Postings : q.account_id \in accounts}}

\* the date_keys that carry a transaction
TransactionDates == {t.date_key : t \in Transactions}

\* generate_fact_financials has returned
LedgerReturned == pc \in {"write_csv", "done"}

\* C25: in the posting table the Ledger Poster returns, the dates with a
\* COGS posting, the dates with a revenue posting and the dates with a
\* transaction are the same dates, and every OPEX posting is dated in a
\* month that has a transaction; the poster does not fail on a transaction
\* table without rows, and returns a posting table without rows for it.
PostingsFollowTransactions ==
    /\ LedgerReturned =>
          /\ PostingDates(CogsAccounts) = PostingDates(RevenueAccounts)
          /\ PostingDates(RevenueAccounts) = TransactionDates
          /\ \A p \in Postings :
                p.account_id \in OpexAccounts =>
                    \E t \in Transactions :
                        KeyPeriod(t.date_key) = KeyPeriod(p.date_key)
          /\ Transactions = {} =>
                /\ Postings = {}
                /\ fact_financials.columns =
                      <<"posting_id", "date_key", "account_id",
                        "cost_center_id", "amount", "currency">>
    /\ (SamplerReturned /\ pc = "ValueError") => Transactions # {}

\* a posting table for transactions on two dates of one month that has a
\* month end, in a calendar with another such month that has no transaction
PostingsFollowTransactionsWitness ==
    /\ LedgerReturned
    /\ Cardinality(TransactionDates) = 2
    /\ \E p \in Postings : p.account_id \in OpexAccounts
    /\ \E m \in MonthsWithEnd :
          \A t \in Transactions : KeyPeriod(t.date_key) # m

\* an empty posting table returned for an empty transaction table, with
\* seven cost centers
EmptyPostingTable ==
    /\ pc = "done"
    /\ NRows(dim_cost_center) = 7
    /\ fact_transactions.columns # <<>> /\ Transactions = {}
    /\ fact_financials.columns # <<>> /\ Postings = {}

====
